---- MODULE Spec2Model ----
(***************************************************************************)
(* Schema-aware query assistance layer of the neon-pg MCP server           *)
(* (pg-mcp-server.js, v1.6.0): the schema cache (getSchemaCache), the      *)
(* error enhancer (enhanceError), the similarity matcher (levenshtein,     *)
(* findSimilar), the query / execute / sample_data handlers that call      *)
(* them, and describe_table.  Every `await` of the source is a point      *)
(* where another tool call may run; the code between two awaits is one     *)
(* atomic step.                                                            *)
(***************************************************************************)
EXTENDS Integers, Sequences, FiniteSets, TLC

(***************************************************************************)
(* Bounds of the model.                                                    *)
(***************************************************************************)
\* number of tool invocations that may be in flight together
NumCalls == 2
\* the age of the cached tables is followed up to MaxAge clock ticks
MaxAge == 2
\* number of catalog changes (successful DDL statements) that are followed
MaxDDL == 1

Calls == 1..NumCalls

(***************************************************************************)
(* JavaScript strings.  A TLA+ string is a sequence of characters; Ch is   *)
(* the one-character string at an index.                                   *)
(***************************************************************************)
Ch(s, i) == SubSeq(s, i, i)

\* the characters of s from index i to index j, as far as s has them
Sub(s, i, j) ==
    LET lo == IF i < 1 THEN 1 ELSE i
        hi == IF j > Len(s) THEN Len(s) ELSE j
    IN IF lo > hi THEN "" ELSE SubSeq(s, lo, hi)

UpperChars == "ABCDEFGHIJKLMNOPQRSTUVWXYZ"
LowerChars == "abcdefghijklmnopqrstuvwxyz"
DigitChars == "0123456789"

\* the set of the characters of a string
CharsOf(s) == {Ch(s, k) : k \in 1..Len(s)}

UpperSet == CharsOf(UpperChars)
LowerSet == CharsOf(LowerChars)
DigitSet == CharsOf(DigitChars)

LowerMap ==
    [c \in UpperSet |-> Ch(LowerChars, CHOOSE k \in 1..Len(UpperChars) : Ch(UpperChars, k) = c)]

LowerCh(c) == IF c \in UpperSet THEN LowerMap[c] ELSE c

\* String.prototype.toLowerCase
RECURSIVE toLowerCase(_)
toLowerCase(s) ==
    IF Len(s) = 0 THEN ""
    ELSE LowerCh(Ch(s, 1)) \o toLowerCase(SubSeq(s, 2, Len(s)))

\* the characters String.prototype.trim removes, and the regex class \s
SpaceSet == {" ", "\t", "\n", "\r"}
IsSpace(c) == c \in SpaceSet

RECURSIVE trimStart(_)
trimStart(s) ==
    IF Len(s) > 0 /\ IsSpace(Ch(s, 1)) THEN trimStart(SubSeq(s, 2, Len(s))) ELSE s

RECURSIVE trimEnd(_)
trimEnd(s) ==
    IF Len(s) > 0 /\ IsSpace(Ch(s, Len(s))) THEN trimEnd(SubSeq(s, 1, Len(s) - 1)) ELSE s

\* String.prototype.trim
trim(s) == trimEnd(trimStart(s))

\* String.prototype.startsWith
startsWith(s, p) == Len(s) >= Len(p) /\ SubSeq(s, 1, Len(p)) = p

\* String.prototype.includes
includes(s, p) == \E i \in 1..(Len(s) - Len(p) + 1) : SubSeq(s, i, i + Len(p) - 1) = p

\* Array.prototype.includes
arrayIncludes(arr, x) == \E i \in 1..Len(arr) : arr[i] = x

\* Array.prototype.join
RECURSIVE join(_, _)
join(arr, sep) ==
    IF Len(arr) = 0 THEN ""
    ELSE IF Len(arr) = 1 THEN arr[1]
    ELSE arr[1] \o sep \o join(Tail(arr), sep)

\* [...new Set(arr)]: the distinct elements in order of first occurrence
RECURSIVE distinctSeq(_)
distinctSeq(arr) ==
    IF Len(arr) = 0 THEN <<>>
    ELSE LET front == distinctSeq(SubSeq(arr, 1, Len(arr) - 1))
             last  == arr[Len(arr)]
         IN IF arrayIncludes(front, last) THEN front ELSE Append(front, last)

Min2(a, b) == IF a <= b THEN a ELSE b
Max2(a, b) == IF a >= b THEN a ELSE b


(***************************************************************************)
(* Similarity matcher.                                                     *)
(***************************************************************************)
DefaultMaxDistance == 3
SuggestionLimit == 5

\* the characters compared without regard to case
RECURSIVE levenshteinRowFolded(_, _, _, _, _)
levenshteinRowFolded(a, b, j, prev, row) ==
    IF Len(row) = Len(a) + 1 THEN row
    ELSE LET i    == Len(row)
             cost == IF LowerCh(Ch(a, i)) = LowerCh(Ch(b, j)) THEN 0 ELSE 1
             cell == Min2(Min2(row[i] + 1, prev[i + 1] + 1), prev[i] + cost)
         IN levenshteinRowFolded(a, b, j, prev, Append(row, cell))

\* a substitution charged even when the characters match
RECURSIVE levenshteinRowCostOne(_, _, _, _, _)
levenshteinRowCostOne(a, b, j, prev, row) ==
    IF Len(row) = Len(a) + 1 THEN row
    ELSE LET i    == Len(row)
             cell == Min2(Min2(row[i] + 1, prev[i + 1] + 1), prev[i] + 1)
         IN levenshteinRowCostOne(a, b, j, prev, Append(row, cell))

\* row j of the matrix, filled left to right; column i is held at index i + 1
RECURSIVE levenshteinRow(_, _, _, _, _)
levenshteinRow(a, b, j, prev, row) ==
    IF Len(row) = Len(a) + 1 THEN row
    ELSE LET i    == Len(row)
             cost == IF Ch(a, i) = Ch(b, j) THEN 0 ELSE 1
             cell == Min2(Min2(row[i] + 1, prev[i + 1] + 1), prev[i] + cost)
         IN levenshteinRow(a, b, j, prev, Append(row, cell))

RECURSIVE levenshteinRows(_, _, _, _)
levenshteinRows(a, b, j, prev) ==
    IF j > Len(b) THEN prev
    ELSE levenshteinRows(a, b, j + 1, levenshteinRow(a, b, j, prev, <<j>>))

levenshtein(a, b) ==
    levenshteinRows(a, b, 1, [i \in 1..(Len(a) + 1) |-> i - 1])[Len(a) + 1]

\* Array.prototype.sort((a, b) => a.distance - b.distance): stable
RECURSIVE insertByDistance(_, _)
insertByDistance(sorted, c) ==
    IF Len(sorted) = 0 THEN <<c>>
    ELSE IF sorted[Len(sorted)].distance <= c.distance THEN Append(sorted, c)
    ELSE Append(insertByDistance(SubSeq(sorted, 1, Len(sorted) - 1), c), sorted[Len(sorted)])

RECURSIVE sortByDistance(_)
sortByDistance(arr) ==
    IF Len(arr) = 0 THEN <<>>
    ELSE insertByDistance(sortByDistance(SubSeq(arr, 1, Len(arr) - 1)), arr[Len(arr)])

\* .map(c => ({ name: c, distance: levenshtein(target, c.toLowerCase()) }))
RECURSIVE scoreAll(_, _)
scoreAll(target, candidates) ==
    IF Len(candidates) = 0 THEN <<>>
    ELSE <<[name |-> candidates[1],
            distance |-> levenshtein(target, toLowerCase(candidates[1]))]>>
         \o scoreAll(target, Tail(candidates))

\* the filter without `c.distance > 0`
RECURSIVE filterDistanceKeepZero(_, _)
filterDistanceKeepZero(scored, maxDistance) ==
    IF Len(scored) = 0 THEN <<>>
    ELSE (IF scored[1].distance <= maxDistance THEN <<scored[1]>> ELSE <<>>)
         \o filterDistanceKeepZero(Tail(scored), maxDistance)

\* .filter(c => c.distance <= maxDistance && c.distance > 0)
RECURSIVE filterDistance(_, _)
filterDistance(scored, maxDistance) ==
    IF Len(scored) = 0 THEN <<>>
    ELSE (IF scored[1].distance <= maxDistance /\ scored[1].distance > 0
          THEN <<scored[1]>> ELSE <<>>)
         \o filterDistance(Tail(scored), maxDistance)

\* .map(c => c.name)
RECURSIVE namesOf(_)
namesOf(scored) ==
    IF Len(scored) = 0 THEN <<>> ELSE <<scored[1].name>> \o namesOf(Tail(scored))

findSimilar(target, candidates, maxDistance) ==
    LET scored == scoreAll(toLowerCase(target), candidates)
        sorted == sortByDistance(filterDistance(scored, maxDistance))
    IN namesOf(SubSeq(sorted, 1, Min2(SuggestionLimit, Len(sorted))))

(***************************************************************************)
(* The regular expressions of enhanceError.  A match is a record           *)
(* [matched, group]: group is the text of the capture group.               *)
(***************************************************************************)
NoMatch == [matched |-> FALSE, group |-> ""]

\* index of the first character at or after p that is not in the class, or
\* Len(s) + 1
RECURSIVE runEnd(_, _, _)
runEnd(s, p, class) ==
    IF p <= Len(s) /\ Ch(s, p) \in class THEN runEnd(s, p + 1, class) ELSE p

RECURSIVE quoteAt(_, _)
quoteAt(s, p) ==
    IF p > Len(s) \/ Ch(s, p) = "\"" THEN p ELSE quoteAt(s, p + 1)

\* /<kw> "([^"]+)" does not exist/i attempted at index i
doesNotExistAt(msg, lower, kw, i) ==
    LET head == kw \o " \""
        p    == i + Len(head)
        q    == quoteAt(msg, p)
        rest == "\" does not exist"
    IN IF /\ Sub(lower, i, p - 1) = head
          /\ q > p
          /\ Sub(lower, q, q + Len(rest) - 1) = rest
       THEN [matched |-> TRUE, group |-> Sub(msg, p, q - 1)]
       ELSE NoMatch

\* msg.match(/<kw> "([^"]+)" does not exist/i): the leftmost match
matchDoesNotExist(msg, kw) ==
    LET lower == toLowerCase(msg)
        hits  == {i \in 1..Len(msg) : doesNotExistAt(msg, lower, kw, i).matched}
    IN IF hits = {} THEN NoMatch
       ELSE doesNotExistAt(msg, lower, kw, CHOOSE i \in hits : \A k \in hits : i <= k)

IdentStart == LowerSet \cup UpperSet \cup {"_"}
IdentRest == IdentStart \cup DigitSet

\* /<kw>\s+([a-z_][a-z0-9_]*)/i attempted at index i
keywordIdentAt(sql, lower, kw, i) ==
    LET p == i + Len(kw)
        q == runEnd(sql, p, SpaceSet)
        e == runEnd(sql, q, IdentRest)
    IN IF /\ Sub(lower, i, p - 1) = kw
          /\ q > p
          /\ q <= Len(sql)
          /\ Ch(sql, q) \in IdentStart
       THEN [matched |-> TRUE, group |-> Sub(sql, q, e - 1)]
       ELSE NoMatch

\* sql.match(/<kw>\s+([a-z_][a-z0-9_]*)/i): the leftmost match
matchKeywordIdent(sql, kw) ==
    LET lower == toLowerCase(sql)
        hits  == {i \in 1..Len(sql) : keywordIdentAt(sql, lower, kw, i).matched}
    IN IF hits = {} THEN NoMatch
       ELSE keywordIdentAt(sql, lower, kw, CHOOSE i \in hits : \A k \in hits : i <= k)

(***************************************************************************)
(* The database catalog, as the two catalog queries of getSchemaCache see  *)
(* it.  catalog counts the schema changes made so far; each one adds a     *)
(* table.                                                                  *)
(***************************************************************************)
BaseTables == <<"users", "orders">>
ExtraTables == <<"items", "events", "tags">>

BaseColumns ==
    << [table_name |-> "users",  column_name |-> "id"],
       [table_name |-> "users",  column_name |-> "name"],
       [table_name |-> "orders", column_name |-> "id"],
       [table_name |-> "orders", column_name |-> "total"],
       [table_name |-> "orders", column_name |-> "details"],
       [table_name |-> "orders", column_name |-> "line items"] >>

\* the columns of type jsonb (a quoted column name may hold any character);
\* no column has an enum type
JsonbColumns == { <<"orders", "details">>, <<"orders", "line items">> }

\* rows of: SELECT table_name FROM information_schema.tables ...
CatalogTables(v) == BaseTables \o SubSeq(ExtraTables, 1, Min2(v, Len(ExtraTables)))

\* rows of: SELECT table_name, column_name FROM information_schema.columns ...
RECURSIVE idColumns(_)
idColumns(tables) ==
    IF Len(tables) = 0 THEN <<>>
    ELSE <<[table_name |-> tables[1], column_name |-> "id"]>> \o idColumns(Tail(tables))

CatalogColumns(v) ==
    BaseColumns \o idColumns(SubSeq(ExtraTables, 1, Min2(v, Len(ExtraTables))))

(***************************************************************************)
(* Values of cachedTables / cachedColumns.  set = FALSE is JavaScript's    *)
(* null; otherwise rows is the array.  fetch, the getSchemaCache           *)
(* invocation <<call, ctx>> whose query produced the rows, is a history    *)
(* tag: the program holds only rows.                                       *)
(***************************************************************************)
NoFetch == <<0, "none">>
Null == [set |-> FALSE, rows |-> <<>>, fetch |-> NoFetch]
Rows(r, f) == [set |-> TRUE, rows |-> r, fetch |-> f]

NoSnapshot == [got |-> FALSE, hit |-> FALSE, tables |-> Null, columns |-> Null, age |-> 0]

NoError == [thrown |-> FALSE, message |-> ""]
NoOutcome == [kind |-> "none", text |-> ""]
NoArgs == [sql |-> "", table |-> "", where |-> "", limit |-> 0]

(***************************************************************************)
(* Inputs and database answers.                                            *)
(***************************************************************************)
\* args.sql of the query tool
QueryTexts == {"", "SELECT naem FROM users", "explain select 1", "drop table orders"}

\* args.sql of the execute tool
ExecuteTexts == {"", " select 1", "UPDATE users SET naem = 1", " Drop table orders"}

\* args.table, args.where and args.limit of the sample_data tool (limit 0
\* stands for an absent limit)
SampleTables == {"", "users", "usres"}
SampleWheres == {"", "naem = 1"}
SampleLimits == {0}

\* error.message of a failed statement
DriverErrors ==
    { "column \"naem\" does not exist",
      "Relation \"usres\" does not exist",
      "syntax error at or near \"selct\"" }

\* error.message of a failed catalog query
CatalogFailure == "Connection terminated unexpectedly"

\* the data-definition verbs: a successful statement that starts with one
\* changes the catalog
DDLKeywords == {"create", "alter", "drop", "truncate", "rename"}

firstKeyword(sql) ==
    LET t == toLowerCase(trim(sql))
    IN Sub(t, 1, runEnd(t, 1, LowerSet) - 1)

isSchemaMutating(sql) == firstKeyword(sql) \in DDLKeywords

(***************************************************************************)
(* enhanceError, from the point where getSchemaCache has returned          *)
(* {tables, columns}.  The result is [threw, text]: threw = TRUE is the    *)
(* TypeError of calling an array method on null.                           *)
(***************************************************************************)
MAX_ROWS == 100
TablePreview == 20

Returned(text) == [threw |-> FALSE, text |-> text]
TypeError == [threw |-> TRUE, text |-> "Cannot read properties of null"]

\* .map(c => c.column_name)
RECURSIVE columnNames(_)
columnNames(rows) ==
    IF Len(rows) = 0 THEN <<>> ELSE <<rows[1].column_name>> \o columnNames(Tail(rows))

\* the columns of every table, the filter left out
columnsOfAnyTable(rows, tableName) == rows

\* columns.filter(c => c.table_name === tableName)
RECURSIVE columnsOfTable(_, _)
columnsOfTable(rows, tableName) ==
    IF Len(rows) = 0 THEN <<>>
    ELSE (IF rows[1].table_name = tableName THEN <<rows[1]>> ELSE <<>>)
         \o columnsOfTable(Tail(rows), tableName)

didYouMean(suggestions, none) ==
    IF Len(suggestions) > 0 THEN join(suggestions, ", ") ELSE none

enhanceColumn(badCol, sql, columns) ==
    LET fromMatch  == matchKeywordIdent(sql, "from")
        tableMatch == IF fromMatch.matched THEN fromMatch
                      ELSE matchKeywordIdent(sql, "update")
        tableName  == tableMatch.group
    IN IF ~columns.set THEN TypeError
       ELSE IF tableMatch.matched
       THEN LET tableCols == columnNames(columnsOfTable(columns.rows, tableName))
                suggestions == findSimilar(badCol, tableCols, DefaultMaxDistance)
            IN Returned("Column \"" \o badCol \o "\" does not exist in table \""
                        \o tableName \o "\"\n\nDid you mean: "
                        \o didYouMean(suggestions, "(no similar columns)")
                        \o "\n\nAvailable columns in " \o tableName \o ": "
                        \o join(tableCols, ", "))
       ELSE LET allCols == distinctSeq(columnNames(columns.rows))
                suggestions == findSimilar(badCol, allCols, DefaultMaxDistance)
            IN Returned("Column \"" \o badCol \o "\" does not exist\n\nDid you mean: "
                        \o didYouMean(suggestions, "(no similar columns)"))

enhanceRelation(badTable, tables) ==
    IF ~tables.set THEN TypeError
    ELSE LET suggestions == findSimilar(badTable, tables.rows, DefaultMaxDistance)
         IN Returned("Table \"" \o badTable \o "\" does not exist\n\nDid you mean: "
                     \o didYouMean(suggestions, "(no similar tables)")
                     \o "\n\nAvailable tables: "
                     \o join(SubSeq(tables.rows, 1, Min2(TablePreview, Len(tables.rows))), ", ")
                     \o (IF Len(tables.rows) > TablePreview THEN "..." ELSE ""))

enhanceError(msg, sql, tables, columns) ==
    LET colMatch == matchDoesNotExist(msg, "column")
        relMatch == matchDoesNotExist(msg, "relation")
    IN IF colMatch.matched THEN enhanceColumn(colMatch.group, sql, columns)
       ELSE IF relMatch.matched THEN enhanceRelation(relMatch.group, tables)
       ELSE Returned(msg)

(***************************************************************************)
(* State.                                                                  *)
(*   cachedTables, cachedColumns  the module-level cache variables         *)
(*   catalog   number of schema changes the database has applied           *)
(*   cacheAge  the time since cachedTables was last stored, that is        *)
(*             Date.now() minus the time of that store (0 while            *)
(*             cachedTables is null)                                       *)
(*   pc        where each tool call stands: "idle" (not yet made),         *)
(*             "query" (awaiting the handler's own pool.query),            *)
(*             "gscTables" / "gscColumns" (inside getSchemaCache, awaiting *)
(*             the first / second catalog query), "describe" (awaiting     *)
(*             handleDescribeTable's five catalog queries), "probe"        *)
(*             (awaiting a JSONB key probe), "done"                        *)
(*   tool, args  the tool called and its arguments                         *)
(*   sent      the SQL text the handler passed to pool.query               *)
(*   caught    the driver error caught by the handler's catch block        *)
(*   ctx       the caller of the getSchemaCache invocation in progress:    *)
(*             "sample" (handleSampleData) or "enhance" (enhanceError)     *)
(*   outcome   how the handler ended: "ok" (a result), "McpError",         *)
(*             "CatalogError" (rejected with the catalog query's error),   *)
(*             "TypeError", "DbError" (rejected with the driver's error)   *)
(*   jsonbLeft the columns handleDescribeTable's `for (const jcol of       *)
(*             jsonbCols)` loop has still to probe, the first one being    *)
(*             probed                                                      *)
(* History variables:                                                      *)
(*   snap      the last {tables, columns} getSchemaCache returned to each  *)
(*             call, and the age of its tables at that moment              *)
(*   queryLog  the catalog queries issued, <<call, ctx, "tables"|"columns">>*)
(*   invalidated  "none", or since the last invalidation: "pending" (no    *)
(*             getSchemaCache call made yet), "miss" / "hit" (the first    *)
(*             call made after it fetched / answered from the cache)       *)
(*   applied   the helper function last called on its own, with its       *)
(*             arguments and what it returned ([fn |-> "none"] before any)  *)
(***************************************************************************)
\* no pure function has been applied yet
NoApply == [fn |-> "none"]

VARIABLES cachedTables, cachedColumns, cacheAge, catalog,
          pc, tool, args, sent, caught, ctx, outcome,
          snap, queryLog, invalidated, jsonbLeft, applied

vars == <<cachedTables, cachedColumns, cacheAge, catalog,
          pc, tool, args, sent, caught, ctx, outcome,
          snap, queryLog, invalidated, jsonbLeft, applied>>

cacheVars == <<cachedTables, cachedColumns, cacheAge>>

Init ==
    /\ cachedTables = Null
    /\ cachedColumns = Null
    /\ cacheAge = 0
    /\ catalog = 0
    /\ pc = [c \in Calls |-> "idle"]
    /\ tool = [c \in Calls |-> "none"]
    /\ args = [c \in Calls |-> NoArgs]
    /\ sent = [c \in Calls |-> ""]
    /\ caught = [c \in Calls |-> NoError]
    /\ ctx = [c \in Calls |-> "none"]
    /\ outcome = [c \in Calls |-> NoOutcome]
    /\ snap = [c \in Calls |-> NoSnapshot]
    /\ queryLog = {}
    /\ invalidated = "none"
    /\ jsonbLeft = [c \in Calls |-> <<>>]
    /\ applied = NoApply

\* calls are made in the order of their numbers
MayStart(c) == pc[c] = "idle" /\ (IF c = 1 THEN TRUE ELSE pc[c - 1] # "idle")

\* the handler ends: it returns a result or rejects
Finish(c, kind, text) ==
    /\ pc' = [pc EXCEPT ![c] = "done"]
    /\ outcome' = [outcome EXCEPT ![c] = [kind |-> kind, text |-> text]]

(***************************************************************************)
(* handleSampleData after `await getSchemaCache()`.                        *)
(***************************************************************************)
SampleDefaultLimit == 3
SampleMaxLimit == 10

sampleLimit(a) ==
    Min2(Max2(1, IF a.limit = 0 THEN SampleDefaultLimit ELSE a.limit), SampleMaxLimit)

whereClause(a) == IF a.where # "" THEN "WHERE " \o a.where ELSE ""

sampleSql(a) ==
    "\n      SELECT * FROM " \o a.table \o "\n      " \o whereClause(a)
    \o "\n      LIMIT " \o ToString(sampleLimit(a)) \o "\n    "

sampleErrorSql(a) == "SELECT * FROM " \o a.table \o " " \o whereClause(a)

\* the table is not looked up in the cached list
SampleAfterCacheUnchecked(c, a, tables) ==
    IF ~tables.set
    THEN /\ Finish(c, "TypeError", TypeError.text)
         /\ UNCHANGED sent
    ELSE /\ sent' = [sent EXCEPT ![c] = sampleSql(a)]
         /\ pc' = [pc EXCEPT ![c] = "query"]
         /\ UNCHANGED outcome

SampleAfterCache(c, a, tables) ==
    IF ~tables.set
    THEN /\ Finish(c, "TypeError", TypeError.text)
         /\ UNCHANGED sent
    ELSE IF ~arrayIncludes(tables.rows, a.table)
    THEN /\ Finish(c, "McpError",
                   "Table \"" \o a.table \o "\" not found\n\nDid you mean: "
                   \o didYouMean(findSimilar(a.table, tables.rows, DefaultMaxDistance),
                                 "(no similar tables)"))
         /\ UNCHANGED sent
    ELSE /\ sent' = [sent EXCEPT ![c] = sampleSql(a)]
         /\ pc' = [pc EXCEPT ![c] = "query"]
         /\ UNCHANGED outcome

(***************************************************************************)
(* The catch block of a handler after enhanceError's                       *)
(* `await getSchemaCache()`: the rest of enhanceError, then                *)
(* `throw new McpError(ErrorCode.InvalidParams, enhanced)`.                *)
(***************************************************************************)
EnhanceAfterCache(c, msg, tables, columns) ==
    LET sql == IF tool[c] = "sample_data" THEN sampleErrorSql(args[c]) ELSE args[c].sql
        r   == enhanceError(msg, sql, tables, columns)
    IN /\ Finish(c, IF r.threw THEN "TypeError" ELSE "McpError", r.text)
       /\ UNCHANGED sent

\* getSchemaCache hands {tables, columns} to its caller
Resume(c, cx, a, msg, hit, tables, columns) ==
    /\ snap' = [snap EXCEPT ![c] = [got |-> TRUE, hit |-> hit, tables |-> tables,
                                    columns |-> columns,
                                    age |-> cacheAge]]
    /\ IF cx = "enhance"
       THEN EnhanceAfterCache(c, msg, tables, columns)
       ELSE SampleAfterCache(c, a, tables)

(***************************************************************************)
(* getSchemaCache.                                                         *)
(***************************************************************************)
\* the cache is never consulted: every call refetches
CacheMissAlways == TRUE

\* if (!cachedTables)
CacheMiss == ~cachedTables.set

\* entry: either the first catalog query is issued and the call suspends,
\* or { tables: cachedTables, columns: cachedColumns } is returned at once
GetSchemaCache(c, cx, a, msg) ==
    /\ ctx' = [ctx EXCEPT ![c] = cx]
    /\ IF CacheMiss
       THEN /\ pc' = [pc EXCEPT ![c] = "gscTables"]
            /\ queryLog' = queryLog \cup {<<c, cx, "tables">>}
            /\ invalidated' = IF invalidated = "pending" THEN "miss" ELSE invalidated
            /\ UNCHANGED <<snap, sent, outcome>>
       ELSE /\ Resume(c, cx, a, msg, TRUE, cachedTables, cachedColumns)
            /\ invalidated' = IF invalidated = "pending" THEN "hit" ELSE invalidated
            /\ UNCHANGED queryLog

\* the first catalog query answers and its rows are not stored
TablesOkNoStore(c) ==
    /\ pc[c] = "gscTables"
    /\ pc' = [pc EXCEPT ![c] = "gscColumns"]
    /\ queryLog' = queryLog \cup {<<c, ctx[c], "columns">>}
    /\ UNCHANGED <<cacheVars, catalog, applied, jsonbLeft, tool, args, sent, caught, ctx,
                   outcome, snap, invalidated>>

\* the first catalog query answers: cachedTables is set and the second
\* catalog query is issued
TablesOk(c) ==
    /\ pc[c] = "gscTables"
    /\ cachedTables' = Rows(CatalogTables(catalog), <<c, ctx[c]>>)
    /\ cacheAge' = 0
    /\ pc' = [pc EXCEPT ![c] = "gscColumns"]
    /\ queryLog' = queryLog \cup {<<c, ctx[c], "columns">>}
    /\ UNCHANGED <<cachedColumns, catalog, applied, jsonbLeft, tool, args, sent, caught, ctx,
                   outcome, snap, invalidated>>

\* the first catalog query fails: getSchemaCache rejects, and so does its
\* caller (neither handleSampleData nor enhanceError catches it)
TablesFail(c) ==
    /\ pc[c] = "gscTables"
    /\ Finish(c, "CatalogError", CatalogFailure)
    /\ UNCHANGED <<cacheVars, catalog, applied, jsonbLeft, tool, args, sent, caught, ctx,
                   snap, queryLog, invalidated>>

\* the second catalog query answers: cachedColumns is set and
\* { tables: cachedTables, columns: cachedColumns } is returned
ColumnsOk(c) ==
    /\ pc[c] = "gscColumns"
    /\ cachedColumns' = Rows(CatalogColumns(catalog), <<c, ctx[c]>>)
    /\ Resume(c, ctx[c], args[c], caught[c].message, FALSE, cachedTables, cachedColumns')
    /\ UNCHANGED <<cachedTables, cacheAge, catalog, applied, jsonbLeft, tool, args, caught, ctx,
                   queryLog, invalidated>>

\* the second catalog query fails
ColumnsFail(c) ==
    /\ pc[c] = "gscColumns"
    /\ Finish(c, "CatalogError", CatalogFailure)
    /\ UNCHANGED <<cacheVars, catalog, applied, jsonbLeft, tool, args, sent, caught, ctx,
                   snap, queryLog, invalidated>>

(***************************************************************************)
(* The tool handlers, up to their first await.                             *)
(***************************************************************************)
\* the cap is appended to every statement
querySqlCapAll(text) == text \o " LIMIT " \o ToString(MAX_ROWS)

\* handleQuery: the text passed to pool.query
querySql(text) ==
    LET lower == toLowerCase(trim(text))
    IN IF startsWith(lower, "explain") \/ includes(lower, " limit ")
       THEN text
       ELSE text \o " LIMIT " \o ToString(MAX_ROWS)

\* only SELECT is taken for a read statement
isReadTextSelectOnly(text) == startsWith(toLowerCase(trim(text)), "select")

isReadText(text) ==
    LET lower == toLowerCase(trim(text))
    IN startsWith(lower, "select") \/ startsWith(lower, "with") \/ startsWith(lower, "explain")

\* the statement is handed to the database before it is classified
CallQueryLate(c, text) ==
    /\ MayStart(c)
    /\ tool' = [tool EXCEPT ![c] = "query"]
    /\ args' = [args EXCEPT ![c] = [NoArgs EXCEPT !.sql = text]]
    /\ sent' = [sent EXCEPT ![c] = querySql(text)]
    /\ IF text = "" \/ ~isReadText(text)
       THEN Finish(c, "McpError", "Use SELECT, WITH, or EXPLAIN queries only")
       ELSE pc' = [pc EXCEPT ![c] = "query"] /\ UNCHANGED outcome
    /\ UNCHANGED <<cacheVars, catalog, applied, jsonbLeft, caught, ctx, snap, queryLog, invalidated>>

CallQuery(c, text) ==
    /\ MayStart(c)
    /\ tool' = [tool EXCEPT ![c] = "query"]
    /\ args' = [args EXCEPT ![c] = [NoArgs EXCEPT !.sql = text]]
    /\ IF text = ""
       THEN Finish(c, "McpError", "sql required") /\ UNCHANGED sent
       ELSE IF ~isReadText(text)
       THEN Finish(c, "McpError", "Use SELECT, WITH, or EXPLAIN queries only")
            /\ UNCHANGED sent
       ELSE /\ sent' = [sent EXCEPT ![c] = querySql(text)]
            /\ pc' = [pc EXCEPT ![c] = "query"]
            /\ UNCHANGED outcome
    /\ UNCHANGED <<cacheVars, catalog, applied, jsonbLeft, caught, ctx, snap, queryLog, invalidated>>

CallExecute(c, text) ==
    /\ MayStart(c)
    /\ tool' = [tool EXCEPT ![c] = "execute"]
    /\ args' = [args EXCEPT ![c] = [NoArgs EXCEPT !.sql = text]]
    /\ IF text = ""
       THEN Finish(c, "McpError", "sql required") /\ UNCHANGED sent
       ELSE IF startsWith(toLowerCase(trim(text)), "select")
       THEN Finish(c, "McpError", "Use query tool for SELECT") /\ UNCHANGED sent
       ELSE /\ sent' = [sent EXCEPT ![c] = text]
            /\ pc' = [pc EXCEPT ![c] = "query"]
            /\ UNCHANGED outcome
    /\ UNCHANGED <<cacheVars, catalog, applied, jsonbLeft, caught, ctx, snap, queryLog, invalidated>>

CallSampleData(c, table, where, limit) ==
    LET a == [NoArgs EXCEPT !.table = table, !.where = where, !.limit = limit]
    IN /\ MayStart(c)
       /\ tool' = [tool EXCEPT ![c] = "sample_data"]
       /\ args' = [args EXCEPT ![c] = a]
       /\ IF table = ""
          THEN /\ Finish(c, "McpError", "table required")
               /\ UNCHANGED <<sent, ctx, snap, queryLog, invalidated>>
          ELSE GetSchemaCache(c, "sample", a, "")
       /\ UNCHANGED <<cacheVars, catalog, applied, jsonbLeft, caught>>

(***************************************************************************)
(* handleDescribeTable.  Its five catalog queries take the table as the    *)
(* parameter $1; the JSONB key probes are built by interpolation.          *)
(***************************************************************************)
\* rows of the first query: the columns of table $1 with their data_type
RECURSIVE describeRows(_, _)
describeRows(rows, table) ==
    IF Len(rows) = 0 THEN <<>>
    ELSE (IF rows[1].table_name = table
          THEN <<[col  |-> rows[1].column_name,
                  type |-> IF <<table, rows[1].column_name>> \in JsonbColumns
                           THEN "jsonb" ELSE "integer"]>>
          ELSE <<>>) \o describeRows(Tail(rows), table)

\* cols.rows.filter(c => c.type === 'jsonb'), as the names jcol.col
RECURSIVE jsonbCols(_)
jsonbCols(cols) ==
    IF Len(cols) = 0 THEN <<>>
    ELSE (IF cols[1].type = "jsonb" THEN <<cols[1].col>> ELSE <<>>)
         \o jsonbCols(Tail(cols))

\* the text of the first of the five parameterised queries
describeSql ==
    "SELECT c.column_name as col, c.data_type as type FROM information_schema.columns c WHERE c.table_name = $1"

\* the text of the key probe of one JSONB column
probeSql(col, table) ==
    "\n        SELECT DISTINCT jsonb_object_keys(" \o col \o ") as key\n        FROM "
    \o table \o "\n        WHERE " \o col \o " IS NOT NULL\n        LIMIT 15\n      "

\* JSON.stringify(result): only the table key is modelled
describeText(table) == "{ \"table\": \"" \o table \o "\" }"

CallDescribeTable(c, table) ==
    /\ MayStart(c)
    /\ tool' = [tool EXCEPT ![c] = "describe_table"]
    /\ args' = [args EXCEPT ![c] = [NoArgs EXCEPT !.table = table]]
    /\ IF table = ""
       THEN Finish(c, "McpError", "table required") /\ UNCHANGED sent
       ELSE /\ sent' = [sent EXCEPT ![c] = describeSql]
            /\ pc' = [pc EXCEPT ![c] = "describe"]
            /\ UNCHANGED outcome
    /\ UNCHANGED <<cacheVars, catalog, applied, jsonbLeft, caught, ctx, snap, queryLog,
                   invalidated>>

\* the loop `for (const jcol of jsonbCols)` with left still to probe: the
\* next probe is sent, or the result is returned
ProbeNext(c, left) ==
    /\ jsonbLeft' = [jsonbLeft EXCEPT ![c] = left]
    /\ IF Len(left) = 0
       THEN Finish(c, "ok", describeText(args[c].table)) /\ UNCHANGED sent
       ELSE /\ sent' = [sent EXCEPT ![c] = probeSql(Head(left), args[c].table)]
            /\ pc' = [pc EXCEPT ![c] = "probe"]
            /\ UNCHANGED outcome

\* Promise.all of the five queries resolves
DescribeOk(c) ==
    LET cols == describeRows(CatalogColumns(catalog), args[c].table)
    IN /\ pc[c] = "describe"
       /\ IF Len(cols) = 0
          THEN /\ Finish(c, "McpError", "Table '" \o args[c].table \o "' not found")
               /\ UNCHANGED <<sent, jsonbLeft>>
          ELSE ProbeNext(c, jsonbCols(cols))
       /\ UNCHANGED <<cacheVars, catalog, applied, tool, args, caught, ctx, snap, queryLog,
                      invalidated>>

\* one of the five queries rejects: nothing catches it
DescribeFail(c) ==
    /\ pc[c] = "describe"
    /\ Finish(c, "DbError", CatalogFailure)
    /\ UNCHANGED <<cacheVars, catalog, applied, jsonbLeft, tool, args, sent, caught, ctx, snap,
                   queryLog, invalidated>>

\* the key probe resolves, or rejects and `catch (e) { }` skips the column:
\* the loop goes on either way (the keys found are not modelled)
ProbeSettled(c) ==
    /\ pc[c] = "probe"
    /\ ProbeNext(c, Tail(jsonbLeft[c]))
    /\ UNCHANGED <<cacheVars, catalog, applied, tool, args, caught, ctx, snap, queryLog,
                   invalidated>>

(***************************************************************************)
(* The database answers the handler's own pool.query.                      *)
(***************************************************************************)
\* JSON.stringify of the handler's result object: rowCount is modelled, the
\* rows and the other keys are left out
ResponseText(n) == "{ \"rowCount\": " \o ToString(n) \o " }"

\* the statement succeeds with n rows; a data-definition statement changes
\* the catalog
DbOk(c, n) ==
    /\ pc[c] = "query"
    /\ IF tool[c] = "execute" /\ isSchemaMutating(sent[c])
       THEN catalog < MaxDDL /\ catalog' = catalog + 1
       ELSE UNCHANGED catalog
    /\ Finish(c, "ok", ResponseText(n))
    /\ UNCHANGED <<cacheVars, tool, args, sent, caught, ctx, snap,
                   queryLog, invalidated, jsonbLeft, applied>>

\* the statement fails with message m: catch (error) { enhanceError(...) }
DbFail(c, m) ==
    /\ pc[c] = "query"
    /\ caught' = [caught EXCEPT ![c] = [thrown |-> TRUE, message |-> m]]
    /\ GetSchemaCache(c, "enhance", args[c], m)
    /\ UNCHANGED <<cacheVars, catalog, applied, jsonbLeft, tool, args>>

\* time passes: the cached tables grow older
Tick ==
    /\ cachedTables.set
    /\ cacheAge < MaxAge
    /\ cacheAge' = cacheAge + 1
    /\ UNCHANGED <<cachedTables, cachedColumns, catalog, applied, jsonbLeft, pc, tool, args, sent, caught, ctx, outcome,
                   snap, queryLog, invalidated>>

\* invalidateSchemaCache()
Invalidate ==
    /\ cachedTables' = Null
    /\ cachedColumns' = Null
    /\ cacheAge' = 0
    /\ invalidated' = "pending"
    /\ UNCHANGED <<catalog, applied, jsonbLeft, pc, tool, args, sent, caught, ctx, outcome,
                   snap, queryLog>>

NextCode ==
    \/ \E c \in Calls, text \in QueryTexts : CallQuery(c, text)
    \/ \E c \in Calls, text \in ExecuteTexts : CallExecute(c, text)
    \/ \E c \in Calls, t \in SampleTables, w \in SampleWheres, l \in SampleLimits :
          CallSampleData(c, t, w, l)
    \/ \E c \in Calls : DbOk(c, 1)
    \/ \E c \in Calls, m \in DriverErrors : DbFail(c, m)
    \/ \E c \in Calls : TablesOk(c)
    \/ \E c \in Calls : TablesFail(c)
    \/ \E c \in Calls : ColumnsOk(c)
    \/ \E c \in Calls : ColumnsFail(c)

Next == NextCode

\* the server as the source has it
Spec == Init /\ [][Next]_vars

\* failing queries, whose catch blocks consult the schema cache, and the clock
NextClock ==
    \/ \E c \in Calls : CallQuery(c, "SELECT naem FROM users")
    \/ \E c \in Calls : DbOk(c, 1)
    \/ \E c \in Calls : DbFail(c, "column \"naem\" does not exist")
    \/ \E c \in Calls : TablesOk(c)
    \/ \E c \in Calls : TablesFail(c)
    \/ \E c \in Calls : ColumnsOk(c)
    \/ \E c \in Calls : ColumnsFail(c)
    \/ Tick

\* the schema cache under the passage of time
SpecClock == Init /\ [][NextClock]_vars

NextInvalidate == NextCode \/ Invalidate

\* the server with invalidateSchemaCache callable at any time
SpecInvalidate == Init /\ [][NextInvalidate]_vars

\* args.table of sample_data and describe_table
IdentTables == {"", "orders", "my table"}

\* the tools that splice identifiers into SQL
NextIdent ==
    \/ \E c \in Calls, t \in IdentTables : CallSampleData(c, t, "", 0)
    \/ \E c \in Calls, t \in IdentTables : CallDescribeTable(c, t)
    \/ \E c \in Calls : DescribeOk(c)
    \/ \E c \in Calls : DescribeFail(c)
    \/ \E c \in Calls : ProbeSettled(c)
    \/ \E c \in Calls : DbOk(c, 1)
    \/ \E c \in Calls : DbFail(c, "column \"naem\" does not exist")
    \/ \E c \in Calls : TablesOk(c)
    \/ \E c \in Calls : TablesFail(c)
    \/ \E c \in Calls : ColumnsOk(c)
    \/ \E c \in Calls : ColumnsFail(c)

\* sample_data and describe_table
SpecIdent == Init /\ [][NextIdent]_vars

\* the sample_data tool alone: a missing, a known and an unknown table
NextSample ==
    \/ \E c \in Calls, t \in SampleTables : CallSampleData(c, t, "", 0)
    \/ \E c \in Calls : DbOk(c, 1)
    \/ \E c \in Calls : DbFail(c, "column \"naem\" does not exist")
    \/ \E c \in Calls : TablesOk(c)
    \/ \E c \in Calls : TablesFail(c)
    \/ \E c \in Calls : ColumnsOk(c)
    \/ \E c \in Calls : ColumnsFail(c)

SpecSample == Init /\ [][NextSample]_vars

\* args.sql of the query tool: each kind of statement, with leading white
\* space, mixed case, and a LIMIT after a blank or a newline
GuardTexts ==
    { "", " SELECT 1", "select 1", "With t as (select 1) select 1",
      "EXPLAIN select 1", "select 1 limit 5", "SELECT 1\nLIMIT 5",
      "delete from users" }

\* args.sql of the execute tool
WriteGuardTexts ==
    { "", " SELECT 1", "With t as (select 1) select 1", "EXPLAIN select 1",
      "delete from users" }

\* result.rowCount of a successful statement
RowCounts == {1, MAX_ROWS}

\* a fetch made by a call that ended before the calls followed here
EarlierFetch == <<0, "enhance">>

\* the server either freshly started or with the schema cache left
\* populated by an earlier failed statement
InitGuard ==
    /\ cachedTables \in {Null, Rows(CatalogTables(0), EarlierFetch)}
    /\ cachedColumns = IF cachedTables.set
                       THEN Rows(CatalogColumns(0), EarlierFetch) ELSE Null
    /\ cacheAge = 0
    /\ catalog = 0
    /\ pc = [c \in Calls |-> "idle"]
    /\ tool = [c \in Calls |-> "none"]
    /\ args = [c \in Calls |-> NoArgs]
    /\ sent = [c \in Calls |-> ""]
    /\ caught = [c \in Calls |-> NoError]
    /\ ctx = [c \in Calls |-> "none"]
    /\ outcome = [c \in Calls |-> NoOutcome]
    /\ snap = [c \in Calls |-> NoSnapshot]
    /\ queryLog = {}
    /\ invalidated = "none"
    /\ jsonbLeft = [c \in Calls |-> <<>>]
    /\ applied = NoApply

\* the query and execute tools over these texts, with statements that
\* succeed
NextGuard ==
    \/ \E c \in Calls, text \in GuardTexts : CallQuery(c, text)
    \/ \E c \in Calls, text \in WriteGuardTexts : CallExecute(c, text)
    \/ \E c \in Calls, n \in RowCounts : DbOk(c, n)

\* the statement guard and the row cap of the query and execute tools
SpecGuard == InitGuard /\ [][NextGuard]_vars

\* the pattern without its closing anchor: /^[a-zA-Z_][a-zA-Z0-9_]*/
SAFE_IDENTIFIER_Unanchored(s) ==
    /\ Len(s) > 0
    /\ Ch(s, 1) \in IdentStart

\* SAFE_IDENTIFIER = /^[a-zA-Z_][a-zA-Z0-9_]*$/
SAFE_IDENTIFIER(s) ==
    /\ Len(s) > 0
    /\ Ch(s, 1) \in IdentStart
    /\ \A i \in 2..Len(s) : Ch(s, i) \in IdentRest

\* assertSafeIdentifier(value, label): the value itself when it matches
\* SAFE_IDENTIFIER, otherwise an InvalidIdentifier failure that carries the
\* label and the value
assertSafeIdentifier(value, label) ==
    IF SAFE_IDENTIFIER(value)
    THEN [threw |-> FALSE, value |-> value, kind |-> "", label |-> ""]
    ELSE [threw |-> TRUE, value |-> value, kind |-> "InvalidIdentifier", label |-> label]

(***************************************************************************)
(* JSON values and extractJsonStructure.  A value is null, a primitive     *)
(* (t is what typeof gives), an array or an object with its keys in        *)
(* Object.entries order.  A structure is a string (the markers '...',      *)
(* '[]', 'null' and the typeof names), a one-element array or an object.   *)
(***************************************************************************)
JsonNull == [t |-> "null"]
JsonPrimitive(type) == [t |-> type]
JsonArray(items) == [t |-> "array", items |-> items]
JsonObject(keys, vals) == [t |-> "object", keys |-> keys, vals |-> vals]

StructString(s) == [k |-> "string", s |-> s]
StructArray(item) == [k |-> "array", item |-> item]
StructObject(keys, vals) == [k |-> "object", keys |-> keys, vals |-> vals]

\* the depth check is made after the null check
RECURSIVE extractJsonStructureNullFirst(_, _, _)
extractJsonStructureNullFirst(obj, maxDepth, currentDepth) ==
    IF obj.t = "null" THEN StructString("null")
    ELSE IF currentDepth >= maxDepth THEN StructString("...")
    ELSE IF obj.t = "array"
    THEN IF Len(obj.items) = 0 THEN StructString("[]")
         ELSE StructArray(extractJsonStructureNullFirst(obj.items[1], maxDepth,
                                                        currentDepth + 1))
    ELSE IF obj.t = "object"
    THEN StructObject(obj.keys,
                      [i \in 1..Len(obj.vals) |->
                          extractJsonStructureNullFirst(obj.vals[i], maxDepth,
                                                        currentDepth + 1)])
    ELSE StructString(obj.t)

\* the depth check lets one more level through
RECURSIVE extractJsonStructureDeeper(_, _, _)
extractJsonStructureDeeper(obj, maxDepth, currentDepth) ==
    IF currentDepth > maxDepth THEN StructString("...")
    ELSE IF obj.t = "null" THEN StructString("null")
    ELSE IF obj.t = "array"
    THEN IF Len(obj.items) = 0 THEN StructString("[]")
         ELSE StructArray(extractJsonStructureDeeper(obj.items[1], maxDepth,
                                                     currentDepth + 1))
    ELSE IF obj.t = "object"
    THEN StructObject(obj.keys,
                      [i \in 1..Len(obj.vals) |->
                          extractJsonStructureDeeper(obj.vals[i], maxDepth,
                                                     currentDepth + 1)])
    ELSE StructString(obj.t)

RECURSIVE extractJsonStructure(_, _, _)
extractJsonStructure(obj, maxDepth, currentDepth) ==
    IF currentDepth >= maxDepth THEN StructString("...")
    ELSE IF obj.t = "null" THEN StructString("null")
    ELSE IF obj.t = "array"
    THEN IF Len(obj.items) = 0 THEN StructString("[]")
         ELSE StructArray(extractJsonStructure(obj.items[1], maxDepth, currentDepth + 1))
    ELSE IF obj.t = "object"
    THEN StructObject(obj.keys,
                      [i \in 1..Len(obj.vals) |->
                          extractJsonStructure(obj.vals[i], maxDepth, currentDepth + 1)])
    ELSE StructString(obj.t)

(***************************************************************************)
(* The helper functions called on their own, over bounded sets of          *)
(* arguments.                                                              *)
(***************************************************************************)
\* the longest string given to levenshtein, and the deepest JSON value
MaxLen == 2
MaxNest == 2

Alphabet == {"a", "A", "b"}

RECURSIVE StringsUpTo(_)
StringsUpTo(n) ==
    IF n = 0 THEN {""}
    ELSE LET shorter == StringsUpTo(n - 1)
         IN shorter \cup {s \o ch : s \in shorter, ch \in Alphabet}

PrimitiveTypes == {"string", "number", "boolean"}

\* the JSON values nested at most n deep; an array holds one or two elements
\* and an object one or two keys
RECURSIVE JsonValues(_)
JsonValues(n) ==
    LET leaves == {JsonNull} \cup {JsonPrimitive(type) : type \in PrimitiveTypes}
    IN IF n = 0 THEN leaves
       ELSE LET inner == JsonValues(n - 1)
            IN leaves
               \cup {JsonArray(<<>>), JsonObject(<<>>, <<>>)}
               \cup {JsonArray(<<v>>) : v \in inner}
               \cup {JsonArray(<<v, JsonPrimitive("number")>>) : v \in inner}
               \cup {JsonObject(<<"a">>, <<v>>) : v \in inner}
               \cup {JsonObject(<<"a", "b">>, <<JsonNull, v>>) : v \in inner}

\* the identifiers of the tests, and the examples of the documentation
IdentifierValues ==
    { "users", "user_profiles", "_internal", "MyTable", "'; DROP TABLE users --",
      "my table", "1table", "", "schema.table", "func()", "orders_2024",
      "orders; DROP TABLE x", "a.b", "users ", " users", "a\"b", "_", "a1", "tab-le" }

IdentifierLabels == {"table", "column"}

SimilarTargets == {"usres", "Users", "USERS", "id"}

SimilarCandidates ==
    { <<>>,
      <<"users", "orders", "user_roles">>,
      <<"Users", "usrs", "ID", "usersx", "user", "uses", "userz", "usars", "Id2">> }

SimilarDistances == {1, 2, DefaultMaxDistance}

\* a fourth argument, which findSimilar does not declare
SimilarLimits == {2, SuggestionLimit}

EnhanceMessages ==
    { "column \"naem\" does not exist",
      "column \"totl\" does not exist",
      "COLUMN \"idd\" DOES NOT EXIST" }

EnhanceSqls ==
    { "SELECT naem FROM users",
      "UPDATE orders SET totl = 1",
      "SELECT naem",
      "UPDATE users SET naem = 1 FROM orders WHERE users.id = orders.id",
      "select idd from Users",
      "insert into orders select totl\n from\n\torders" }

ApplyAssertSafeIdentifier(value, label) ==
    /\ applied = NoApply
    /\ applied' = [fn |-> "assertSafeIdentifier", value |-> value, label |-> label,
                   result |-> assertSafeIdentifier(value, label)]
    /\ UNCHANGED <<cacheVars, catalog, pc, tool, args, sent, caught, ctx, outcome,
                   snap, queryLog, invalidated, jsonbLeft>>

ApplyLevenshtein(a, b) ==
    /\ applied = NoApply
    /\ applied' = [fn |-> "levenshtein", a |-> a, b |-> b, result |-> levenshtein(a, b)]
    /\ UNCHANGED <<cacheVars, catalog, pc, tool, args, sent, caught, ctx, outcome,
                   snap, queryLog, invalidated, jsonbLeft>>

ApplyFindSimilar(target, candidates, maxDistance, limit) ==
    /\ applied = NoApply
    /\ applied' = [fn |-> "findSimilar", target |-> target, candidates |-> candidates,
                   maxDistance |-> maxDistance, limit |-> limit,
                   result |-> findSimilar(target, candidates, maxDistance)]
    /\ UNCHANGED <<cacheVars, catalog, pc, tool, args, sent, caught, ctx, outcome,
                   snap, queryLog, invalidated, jsonbLeft>>

ApplyExtractJsonStructure(obj, maxDepth, currentDepth) ==
    /\ applied = NoApply
    /\ applied' = [fn |-> "extractJsonStructure", obj |-> obj, maxDepth |-> maxDepth,
                   currentDepth |-> currentDepth,
                   result |-> extractJsonStructure(obj, maxDepth, currentDepth)]
    /\ UNCHANGED <<cacheVars, catalog, pc, tool, args, sent, caught, ctx, outcome,
                   snap, queryLog, invalidated, jsonbLeft>>

\* enhanceError once getSchemaCache has answered from a populated cache
ApplyEnhanceError(msg, sql) ==
    /\ applied = NoApply
    /\ cachedColumns.set
    /\ applied' = [fn |-> "enhanceError", msg |-> msg, sql |-> sql,
                   columns |-> cachedColumns.rows,
                   result |-> enhanceError(msg, sql, cachedTables, cachedColumns)]
    /\ UNCHANGED <<cacheVars, catalog, pc, tool, args, sent, caught, ctx, outcome,
                   snap, queryLog, invalidated, jsonbLeft>>

NextPure ==
    \/ \E value \in IdentifierValues, label \in IdentifierLabels :
          ApplyAssertSafeIdentifier(value, label)
    \/ \E a \in StringsUpTo(MaxLen), b \in StringsUpTo(MaxLen) : ApplyLevenshtein(a, b)
    \/ \E target \in SimilarTargets, candidates \in SimilarCandidates,
          maxDistance \in SimilarDistances, limit \in SimilarLimits :
          ApplyFindSimilar(target, candidates, maxDistance, limit)
    \/ \E obj \in JsonValues(MaxNest), maxDepth \in 0..(MaxNest + 1),
          currentDepth \in 0..1 :
          ApplyExtractJsonStructure(obj, maxDepth, currentDepth)
    \/ \E msg \in EnhanceMessages, sql \in EnhanceSqls : ApplyEnhanceError(msg, sql)

\* the cache as an earlier getSchemaCache left it
InitPure == InitGuard /\ cachedTables.set

\* one helper function called once on arguments of these sets
SpecPure == InitPure /\ [][NextPure]_vars

(***************************************************************************)
(* Properties of the schema cache and of enhanceError.                     *)
(***************************************************************************)
\* the time-to-live of a snapshot, in ticks of the clock
CACHE_TTL == 1

\* C1: every snapshot handed to a caller of getSchemaCache has its tables
\* and its columns from the same fetch; in particular never a populated
\* tables list with null columns
SnapshotFromOneFetch ==
    \A c \in Calls :
        snap[c].got => snap[c].tables.fetch = snap[c].columns.fetch

\* C2: once no getSchemaCache call is in flight any more, a populated cache
\* holds the tables and the columns of one single fetch
FinalCacheFromOneFetch ==
    ( /\ \A c \in Calls : pc[c] \notin {"gscTables", "gscColumns"}
      /\ cachedTables.set
      /\ cachedColumns.set )
    => cachedTables.fetch = cachedColumns.fetch

\* C3: when a catalog query of a getSchemaCache call has failed, the cache
\* keeps no value written by that call's fetch
FailedFetchLeavesNothing ==
    \A c \in Calls :
        outcome[c].kind = "CatalogError"
        => /\ cachedTables.fetch # <<c, ctx[c]>>
           /\ cachedColumns.fetch # <<c, ctx[c]>>

\* C4: when the execute handler returns after successfully running a
\* statement whose first keyword is CREATE, ALTER, DROP, TRUNCATE or RENAME,
\* the schema cache is unpopulated
DDLInvalidatesCache ==
    [][\A c \in Calls :
          ( /\ tool[c] = "execute"
            /\ pc[c] = "query"
            /\ isSchemaMutating(args[c].sql)
            /\ outcome'[c].kind = "ok" )
          => (~cachedTables'.set /\ ~cachedColumns'.set)]_vars

\* C5: the first getSchemaCache call made after invalidateSchemaCache() is
\* never answered from the cache
InvalidateForcesFetch == invalidated # "hit"

\* C6: no caller of getSchemaCache is answered from the cache with a snapshot
\* older than the time-to-live
NoStaleSnapshot ==
    \A c \in Calls : (snap[c].got /\ snap[c].hit) => snap[c].age <= CACHE_TTL

\* C7: whatever the time-to-live, a getSchemaCache call made while the
\* snapshot is populated and within it issues no database query and returns
\* the cached tables and columns
FreshSnapshotServedFromCache ==
    [][\A c \in Calls, ttl \in 0..MaxAge :
          ( /\ \/ pc[c] = "idle" /\ tool'[c] = "sample_data" /\ args'[c].table # ""
               \/ pc[c] = "query" /\ caught'[c].thrown
            /\ cachedTables.set
            /\ cachedColumns.set
            /\ cacheAge <= ttl )
          => /\ queryLog' = queryLog
             /\ snap'[c].got
             /\ snap'[c].tables = cachedTables
             /\ snap'[c].columns = cachedColumns]_vars

\* a call was answered from a populated cache that had aged
ServedFromCache ==
    \E c \in Calls :
        /\ snap[c].got
        /\ snap[c].hit
        /\ snap[c].tables.set
        /\ snap[c].columns.set
        /\ snap[c].age > 0

\* C8: at most one getSchemaCache call at a time has catalog queries in
\* flight
SingleFlight ==
    Cardinality({c \in Calls : pc[c] \in {"gscTables", "gscColumns"}}) <= 1

\* C9: a handler whose statement failed in the database always reports an
\* McpError built by enhanceError, which never throws
EnhanceErrorNeverThrows ==
    \A c \in Calls :
        (caught[c].thrown /\ pc[c] = "done") => outcome[c].kind = "McpError"

\* C10: for a driver error matching neither `column "x" does not exist` nor
\* `relation "x" does not exist`, the handler reports exactly the original
\* message
UnmatchedErrorUnchanged ==
    \A c \in Calls :
        ( /\ caught[c].thrown
          /\ pc[c] = "done"
          /\ ~matchDoesNotExist(caught[c].message, "column").matched
          /\ ~matchDoesNotExist(caught[c].message, "relation").matched )
        => /\ outcome[c].kind = "McpError"
           /\ outcome[c].text = caught[c].message

(***************************************************************************)
(* Properties of the identifier guard and of the statement guard.          *)
(***************************************************************************)
\* C11: every statement that sample_data or describe_table builds by
\* interpolation splices in only names matching SAFE_IDENTIFIER: the table
\* argument and the JSONB column being probed
IdentifiersValidated ==
    \A c \in Calls :
        /\ (tool[c] = "sample_data" /\ sent[c] # "")
           => SAFE_IDENTIFIER(args[c].table)
        /\ (tool[c] = "describe_table" /\ pc[c] = "probe")
           => /\ SAFE_IDENTIFIER(args[c].table)
              /\ SAFE_IDENTIFIER(Head(jsonbLeft[c]))

\* C12: a sample_data or describe_table call whose table argument does not
\* match SAFE_IDENTIFIER has ended without sending a statement and without
\* a catalog query of getSchemaCache
UnsafeTableRejectedFirst ==
    \A c \in Calls :
        (tool[c] \in {"sample_data", "describe_table"} /\ ~SAFE_IDENTIFIER(args[c].table))
        => /\ pc[c] = "done"
           /\ sent[c] = ""
           /\ \A q \in queryLog : q[1] # c

\* C13: a call that the query handler rejects for not being a read
\* statement, or the execute handler for being one, ends in the step that
\* starts it: no statement is sent, no catalog query is issued, and the
\* schema cache and the catalog are as before
KindRejectedFirst ==
    [][\A c \in Calls :
          ( /\ pc[c] = "idle"
            /\ pc'[c] = "done"
            /\ tool'[c] \in {"query", "execute"}
            /\ args'[c].sql # "" )
          => /\ sent'[c] = ""
             /\ outcome'[c].kind = "McpError"
             /\ cachedTables' = cachedTables
             /\ cachedColumns' = cachedColumns
             /\ queryLog' = queryLog
             /\ catalog' = catalog]_vars

\* a statement was rejected for its kind while the cache was populated
KindRejectedWithCache ==
    \E c \in Calls :
        /\ outcome[c].text \in {"Use SELECT, WITH, or EXPLAIN queries only",
                                "Use query tool for SELECT"}
        /\ sent[c] = ""
        /\ cachedTables.set
        /\ cachedColumns.set

\* C14: the execute handler sends no statement whose trimmed, lower-cased
\* text starts with select or with with
ExecuteRejectsSelectAndWith ==
    \A c \in Calls :
        ( /\ tool[c] = "execute"
          /\ \E kw \in {"select", "with"} :
                startsWith(toLowerCase(trim(args[c].sql)), kw) )
        => sent[c] = ""

\* C15: the execute handler sends no statement whose trimmed, lower-cased
\* text starts with explain
ExecuteNeverExplains ==
    \A c \in Calls :
        ( /\ tool[c] = "execute"
          /\ startsWith(toLowerCase(trim(args[c].sql)), "explain") )
        => sent[c] = ""

hasExplicitLimit(text) ==
    LET lower == toLowerCase(trim(text))
    IN \E i \in 2..Len(lower) :
          /\ IsSpace(Ch(lower, i - 1))
          /\ Sub(lower, i, i + 4) = "limit"
          /\ i + 5 <= Len(lower)
          /\ IsSpace(Ch(lower, i + 5))

\* C18: for a statement starting with select or with, the query handler
\* sends the caller's text unchanged when it has a LIMIT clause, and the
\* text followed by ` LIMIT 100` when it has none
RowCapExactlyWithoutLimit ==
    \A c \in Calls :
        ( /\ tool[c] = "query"
          /\ \E kw \in {"select", "with"} :
                startsWith(toLowerCase(trim(args[c].sql)), kw) )
        => sent[c] = IF hasExplicitLimit(args[c].sql)
                     THEN args[c].sql
                     ELSE args[c].sql \o " LIMIT " \o ToString(MAX_ROWS)

\* C19: a query response carries a warning exactly when the cap was
\* appended to the caller's text and the row count reaches MAX_ROWS
TruncationWarning ==
    \A c \in Calls, n \in RowCounts :
        ( /\ tool[c] = "query"
          /\ outcome[c].kind = "ok"
          /\ includes(outcome[c].text, "\"rowCount\": " \o ToString(n) \o " ") )
        => ( includes(outcome[c].text, "\"warning\"")
             <=> (sent[c] # args[c].sql /\ n >= MAX_ROWS) )

\* C20: the statement sample_data sends is built from the table name and
\* the clamped limit alone
SampleSqlFromTableAndLimit ==
    \A c \in Calls :
        (tool[c] = "sample_data" /\ sent[c] # "")
        => sent[c] = sampleSql([NoArgs EXCEPT !.table = args[c].table,
                                              !.limit = args[c].limit])

(***************************************************************************)
(* Properties of the helper functions.                                     *)
(***************************************************************************)
Letters == CharsOf("abcdefghijklmnopqrstuvwxyzABCDEFGHIJKLMNOPQRSTUVWXYZ")
Digits == CharsOf("0123456789")

\* the identifiers the tests and the documented examples expect to pass
AcceptedIdentifiers ==
    {"users", "user_profiles", "_internal", "MyTable", "orders_2024", "_", "a1"}

RECURSIVE classicDistance(_, _, _, _)
classicDistance(a, b, i, j) ==
    IF i = 0 THEN j
    ELSE IF j = 0 THEN i
    ELSE Min2(Min2(classicDistance(a, b, i - 1, j) + 1,
                   classicDistance(a, b, i, j - 1) + 1),
              classicDistance(a, b, i - 1, j - 1)
                  + (IF Ch(a, i) = Ch(b, j) THEN 0 ELSE 1))

\* the positions at which two strings of one length differ
differingPositions(a, b) == {k \in 1..Len(a) : Ch(a, k) # Ch(b, k)}

\* C22 as stated: levenshtein(a, b) is the classic Levenshtein distance
\* computed with case-insensitive character comparison, so two strings that
\* differ only in letter case have distance 0.
LevenshteinIgnoresCase ==
    applied.fn = "levenshtein" =>
        /\ applied.result = classicDistance(toLowerCase(applied.a), toLowerCase(applied.b),
                                            Len(applied.a), Len(applied.b))
        /\ toLowerCase(applied.a) = toLowerCase(applied.b) => applied.result = 0

\* C22 as amended: levenshtein(a, b) is the classic Levenshtein distance
\* computed with exact (case-sensitive) character comparison; two strings
\* that differ only in letter case have a distance of at least 1 and of at
\* most the number of positions at which they differ.
LevenshteinIsClassicExact ==
    applied.fn = "levenshtein" =>
        /\ applied.result = classicDistance(applied.a, applied.b,
                                            Len(applied.a), Len(applied.b))
        /\ toLowerCase(applied.a) = toLowerCase(applied.b) /\ applied.a # applied.b =>
               /\ applied.result >= 1
               /\ applied.result <= Cardinality(differingPositions(applied.a, applied.b))

LevenshteinOfCaseVariants ==
    /\ applied.fn = "levenshtein"
    /\ applied.a = "aA"
    /\ applied.b = "Aa"
    /\ applied.result = 2

\* C23: for all strings a and b, levenshtein(a, a) = 0, levenshtein(a, b) =
\* levenshtein(b, a), and levenshtein("", b) is the length of b.
LevenshteinIdentitySymmetryEmpty ==
    applied.fn = "levenshtein" =>
        /\ applied.a = applied.b => applied.result = 0
        /\ applied.result = levenshtein(applied.b, applied.a)
        /\ applied.a = "" => applied.result = Len(applied.b)
        /\ applied.b = "" => applied.result = Len(applied.a)

LevenshteinOfEmptyString ==
    /\ applied.fn = "levenshtein"
    /\ applied.a = ""
    /\ applied.b = "Ab"
    /\ applied.result = 2

\* the distance of candidate i to the target, case folded
foldedDistance(target, candidates, i) ==
    levenshtein(toLowerCase(target), toLowerCase(candidates[i]))

\* the candidates at a distance d with 0 < d <= maxDistance
qualifying(target, candidates, maxDistance) ==
    {i \in 1..Len(candidates) :
        /\ foldedDistance(target, candidates, i) > 0
        /\ foldedDistance(target, candidates, i) <= maxDistance}

\* the qualifying candidates by ascending distance, equal distances in the
\* order of the input
rankedSimilar(target, candidates, maxDistance) ==
    LET Q == qualifying(target, candidates, maxDistance)
        before(j, i) ==
            \/ foldedDistance(target, candidates, j) < foldedDistance(target, candidates, i)
            \/ /\ foldedDistance(target, candidates, j) = foldedDistance(target, candidates, i)
               /\ j < i
        rank(i) == Cardinality({j \in Q : before(j, i)}) + 1
    IN [k \in 1..Cardinality(Q) |-> candidates[CHOOSE i \in Q : rank(i) = k]]

firstOf(arr, n) == SubSeq(arr, 1, Min2(n, Len(arr)))

neverTheTarget(target, result) ==
    \A k \in 1..Len(result) : toLowerCase(result[k]) # toLowerCase(target)

\* C24 as stated: findSimilar(target, candidates, maxDistance, limit) returns,
\* in original casing, exactly the first `limit` of the candidates at a
\* case-insensitive distance d with 0 < d <= maxDistance, by ascending
\* distance and equal distances in input order; a candidate equal to the
\* target up to case is never returned, and the caller's limit bounds the
\* length of the result.
SimilarUpToCallersLimit ==
    applied.fn = "findSimilar" =>
        /\ applied.result = firstOf(rankedSimilar(applied.target, applied.candidates,
                                                  applied.maxDistance), applied.limit)
        /\ neverTheTarget(applied.target, applied.result)
        /\ Len(applied.result) <= applied.limit

\* C24 as amended: findSimilar(target, candidates, maxDistance) returns, in
\* original casing, exactly the first 5 of the candidates at a
\* case-insensitive distance d with 0 < d <= maxDistance, by ascending
\* distance and equal distances in input order; a candidate equal to the
\* target up to case is never returned, and the result holds at most 5
\* names whatever further argument the caller passes.
SimilarUpToFive ==
    applied.fn = "findSimilar" =>
        /\ applied.result = firstOf(rankedSimilar(applied.target, applied.candidates,
                                                  applied.maxDistance), 5)
        /\ neverTheTarget(applied.target, applied.result)
        /\ Len(applied.result) <= 5

FiveSimilarDespiteLimit ==
    /\ applied.fn = "findSimilar"
    /\ applied.target = "Users"
    /\ applied.maxDistance = 3
    /\ applied.limit = 2
    /\ Len(applied.result) = 5
    /\ Cardinality(qualifying(applied.target, applied.candidates, 3)) > 5

\* reading the text enhanceError returns: the index of the first occurrence
\* of p in s (0 if none), the text between two markers, the items of a list
positionOf(s, p) ==
    LET hits == {i \in 1..(Len(s) - Len(p) + 1) : SubSeq(s, i, i + Len(p) - 1) = p}
    IN IF hits = {} THEN 0 ELSE CHOOSE i \in hits : \A k \in hits : i <= k

textAfter(s, p) ==
    IF positionOf(s, p) = 0 THEN "" ELSE Sub(s, positionOf(s, p) + Len(p), Len(s))

textBefore(s, p) ==
    IF positionOf(s, p) = 0 THEN s ELSE Sub(s, 1, positionOf(s, p) - 1)

RECURSIVE splitOn(_, _)
splitOn(s, sep) ==
    IF positionOf(s, sep) = 0 THEN <<s>>
    ELSE <<textBefore(s, sep)>> \o splitOn(textAfter(s, sep), sep)

\* the names after "Did you mean: "
suggestionsIn(text) ==
    LET list == textBefore(textAfter(text, "Did you mean: "), "\n\n")
    IN IF list = "(no similar columns)" THEN <<>> ELSE splitOn(list, ", ")

\* the column named by the driver's message
offendingColumn(msg) == textBefore(textAfter(msg, "\""), "\"")

\* the cached columns of a table, and the distinct column names of all tables
cachedColumnsOf(rows, table) ==
    LET own == SelectSeq(rows, LAMBDA c : c.table_name = table)
    IN [k \in 1..Len(own) |-> own[k].column_name]

firstOccurrences(rows) ==
    LET first == SelectSeq([k \in 1..Len(rows) |-> k],
                           LAMBDA k : \A j \in 1..(k - 1) :
                                         rows[j].column_name # rows[k].column_name)
    IN [k \in 1..Len(first) |-> rows[first[k]].column_name]

\* C25: for a column-not-found error whose SQL yields a table name, every
\* suggestion of enhanceError is a column of that table in the schema cache,
\* and the output names the offending column, the table and the full list of
\* that table's columns; when no table name is recovered, the suggestions are
\* ranked against the distinct column names of all tables and no column list
\* is included.
ColumnSuggestionsScoped ==
    applied.fn = "enhanceError" =>
        LET text    == applied.result.text
            badCol  == offendingColumn(applied.msg)
            fromT   == matchKeywordIdent(applied.sql, "from")
            updateT == matchKeywordIdent(applied.sql, "update")
            table   == textBefore(textAfter(text, "in table \""), "\"")
            own     == cachedColumnsOf(applied.columns, table)
        IN /\ ~applied.result.threw
           /\ IF fromT.matched \/ updateT.matched
              THEN /\ \/ fromT.matched /\ table = fromT.group
                      \/ updateT.matched /\ table = updateT.group
                   /\ startsWith(text, "Column \"" \o badCol \o "\" does not exist in table \""
                                       \o table \o "\"\n\nDid you mean: ")
                   /\ \A k \in 1..Len(suggestionsIn(text)) :
                          \E j \in 1..Len(own) : own[j] = suggestionsIn(text)[k]
                   /\ suggestionsIn(text) = firstOf(rankedSimilar(badCol, own, 3), 5)
                   /\ textAfter(text, "\n\nAvailable columns in " \o table \o ": ")
                          = join(own, ", ")
                   /\ includes(text, "\n\nAvailable columns in " \o table \o ": ")
              ELSE /\ startsWith(text, "Column \"" \o badCol \o "\" does not exist\n\nDid you mean: ")
                   /\ suggestionsIn(text)
                          = firstOf(rankedSimilar(badCol, firstOccurrences(applied.columns), 3), 5)
                   /\ ~includes(text, "Available columns")
                   /\ ~includes(text, "in table")

ColumnSuggestedFromItsTable ==
    /\ applied.fn = "enhanceError"
    /\ applied.msg = "column \"naem\" does not exist"
    /\ applied.sql = "SELECT naem FROM users"
    /\ applied.result.text = "Column \"naem\" does not exist in table \"users\"\n\nDid you mean: name\n\nAvailable columns in users: id, name"

\* how deep a structure nests: 0 for a string, one more than its deepest
\* element for an array or an object
RECURSIVE nestingDepth(_)
nestingDepth(node) ==
    IF node.k = "string" THEN 0
    ELSE IF node.k = "array" THEN 1 + nestingDepth(node.item)
    ELSE LET depths == {nestingDepth(node.vals[i]) : i \in 1..Len(node.vals)}
         IN 1 + (IF depths = {} THEN 0 ELSE CHOOSE d \in depths : \A e \in depths : e <= d)

\* C26: extractJsonStructure returns the truncation marker whenever
\* currentDepth >= maxDepth, whatever the value is, and never recurses below
\* that depth: the structure it returns nests at most maxDepth deep (at most
\* maxDepth - currentDepth levels below the call), and the call ends on
\* every finite value.
TruncatedAtMaxDepth ==
    applied.fn = "extractJsonStructure" =>
        /\ applied.currentDepth >= applied.maxDepth =>
               applied.result = StructString("...")
        /\ nestingDepth(applied.result) <= applied.maxDepth
        /\ applied.currentDepth < applied.maxDepth =>
               nestingDepth(applied.result) <= applied.maxDepth - applied.currentDepth

NestedValueTruncated ==
    /\ applied.fn = "extractJsonStructure"
    /\ applied.obj = JsonObject(<<"a">>, <<JsonArray(<<JsonPrimitive("number")>>)>>)
    /\ applied.maxDepth = 1
    /\ applied.currentDepth = 0
    /\ applied.result = StructObject(<<"a">>, <<StructString("...")>>)

\* C27 as stated: extractJsonStructure(null, maxDepth) yields 'null' for every
\* maxDepth and at every depth at which a null value is reached, and a
\* string, number or boolean yields the name of its runtime type.
NullAndPrimitivesAtAnyDepth ==
    applied.fn = "extractJsonStructure" =>
        /\ applied.obj = JsonNull => applied.result = StructString("null")
        /\ applied.obj.t \in PrimitiveTypes => applied.result = StructString(applied.obj.t)
        /\ applied.obj.t = "object" /\ applied.result.k = "object" =>
               \A i \in 1..Len(applied.obj.vals) :
                   applied.obj.vals[i] = JsonNull =>
                       applied.result.vals[i] = StructString("null")

\* C27 as amended: where currentDepth < maxDepth, a null value yields 'null'
\* and a string, number or boolean yields the name of its runtime type, at
\* the top of the value and at every depth below maxDepth at which it is
\* reached; at a depth of maxDepth or more a null or a primitive yields the
\* truncation marker like any other value.
NullAndPrimitivesAboveMaxDepth ==
    applied.fn = "extractJsonStructure" =>
        LET leaf(v, depth, node) ==
                IF depth >= applied.maxDepth THEN node = StructString("...")
                ELSE /\ v = JsonNull => node = StructString("null")
                     /\ v.t \in PrimitiveTypes => node = StructString(v.t)
        IN /\ applied.obj.t \in PrimitiveTypes \cup {"null"} =>
                  leaf(applied.obj, applied.currentDepth, applied.result)
           /\ applied.obj.t = "object" /\ applied.result.k = "object" =>
                  \A i \in 1..Len(applied.obj.vals) :
                      applied.obj.vals[i].t \in PrimitiveTypes \cup {"null"} =>
                          leaf(applied.obj.vals[i], applied.currentDepth + 1,
                               applied.result.vals[i])
           /\ applied.obj.t = "array" /\ applied.result.k = "array" =>
                  (applied.obj.items[1].t \in PrimitiveTypes \cup {"null"} =>
                      leaf(applied.obj.items[1], applied.currentDepth + 1,
                           applied.result.item))

NullAtMaxDepthTruncated ==
    /\ applied.fn = "extractJsonStructure"
    /\ applied.obj = JsonObject(<<"a", "b">>, <<JsonNull, JsonPrimitive("string")>>)
    /\ applied.maxDepth = 1
    /\ applied.currentDepth = 0
    /\ applied.result = StructObject(<<"a", "b">>, <<StructString("..."), StructString("...")>>)

\* the from or update clause that occurs first in the text
firstClause(sql) ==
    LET lower == toLowerCase(sql)
        at(i) == IF keywordIdentAt(sql, lower, "from", i).matched
                 THEN keywordIdentAt(sql, lower, "from", i)
                 ELSE keywordIdentAt(sql, lower, "update", i)
        hits  == {i \in 1..Len(sql) : at(i).matched}
    IN IF hits = {} THEN NoMatch ELSE at(CHOOSE i \in hits : \A k \in hits : i <= k)

\* C28: for a column-not-found error, the table enhanceError uses to scope
\* its suggestions is the identifier of the first `from <identifier>` or
\* `update <identifier>` clause occurring in the SQL text; with an update
\* clause and a later from clause, it is the table of the update clause.
FirstClauseNamesTheTable ==
    applied.fn = "enhanceError" /\ firstClause(applied.sql).matched =>
        /\ startsWith(applied.result.text,
                      "Column \"" \o offendingColumn(applied.msg)
                      \o "\" does not exist in table \""
                      \o firstClause(applied.sql).group \o "\"\n")
        /\ applied.result.text
               = "Column \"" \o offendingColumn(applied.msg) \o "\" does not exist in table \""
                 \o firstClause(applied.sql).group \o "\"\n\nDid you mean: "
                 \o (IF suggestionsIn(applied.result.text) = <<>> THEN "(no similar columns)"
                     ELSE join(firstOf(rankedSimilar(offendingColumn(applied.msg),
                                  cachedColumnsOf(applied.columns, firstClause(applied.sql).group),
                                  3), 5), ", "))
                 \o "\n\nAvailable columns in " \o firstClause(applied.sql).group \o ": "
                 \o join(cachedColumnsOf(applied.columns, firstClause(applied.sql).group), ", ")

(***************************************************************************)
(* Properties of the cache variables and of sample_data.                   *)
(***************************************************************************)
\* C29: in every reachable state, under any interleaving of concurrent
\* getSchemaCache calls and any failure of a catalog query, cachedColumns is
\* populated only if cachedTables is populated.
ColumnsOnlyWithTables == cachedColumns.set => cachedTables.set

ColumnsStoredAfterAFailure ==
    /\ cachedColumns.set
    /\ cachedTables.set
    /\ \E c \in Calls : outcome[c].kind = "CatalogError"
    /\ cachedColumns.fetch # cachedTables.fetch

====
